---- MODULE Spec2Model ----
(***************************************************************************)
(* Verification model of the Tic Tac Toe rules engine                      *)
(* (src/town/games/TicTacToeGame.ts) and of the game area that routes      *)
(* commands to it (src/town/games/TicTacToeGameArea.ts).                   *)
(*                                                                         *)
(* The state is the engine's state object (moves, status, x, o, winner),   *)
(* the list of players of the Game base class, and the outcome of the last *)
(* call (the message of the InvalidParametersError it threw, or NoError).  *)
(* Player ids are the numbers 1..NumPlayers; NoPlayer stands for an        *)
(* undefined id.  The game area adds whether it holds a game and the       *)
(* history of the outcomes it recorded.                                    *)
(***************************************************************************)
EXTENDS Integers, Naturals, Sequences, FiniteSets, TLC

VARIABLES players, moves, status, x, o, winner, err, hasGame, history, emitted

\* the game area: whether it holds a game (this._game) and its history
areaVars == <<hasGame, history, emitted>>

vars == <<players, moves, status, x, o, winner, err, hasGame, history, emitted>>

(* ---------------------------- bounds ----------------------------------- *)

\* player ids that call the engine
NumPlayers == 3

\* Spec: the longest move log the callers build
MaxMoves == 2

\* the first MaxVaried moves of a log are those for which the callers have a
\* choice of cells
MaxVaried == 3

\* a move on a free cell for which the callers have a choice targets one of
\* the first MaxChoices free cells
MaxChoices == 2

\* SpecCommands: the longest history observed
MaxHistory == 2

Players == 1..NumPlayers

NoPlayer == 0

(* ------------------------- program constants --------------------------- *)

BoardSize == 3

BoardCells == 9

Coords == 0..(BoardSize - 1)

NoError == "none"

BOARD_POSITION_NOT_EMPTY_MESSAGE == "BOARD_POSITION_NOT_EMPTY_MESSAGE"

GAME_FULL_MESSAGE == "GAME_FULL_MESSAGE"

GAME_NOT_IN_PROGRESS_MESSAGE == "GAME_NOT_IN_PROGRESS_MESSAGE"

MOVE_NOT_YOUR_TURN_MESSAGE == "MOVE_NOT_YOUR_TURN_MESSAGE"

PLAYER_ALREADY_IN_GAME_MESSAGE == "PLAYER_ALREADY_IN_GAME_MESSAGE"

PLAYER_NOT_IN_GAME_MESSAGE == "PLAYER_NOT_IN_GAME_MESSAGE"

(* ------------------------- helpers on sequences ------------------------ *)

\* Array.prototype.indexOf(p) !== -1
InPlayers(ps, p) == \E i \in 1..Len(ps) : ps[i] = p

(* --------------------------- Game base class --------------------------- *)

\* Game.join: after _join returned, the player is pushed onto _players.
GameJoin(ps, p) == Append(ps, p)

\* Game.leave: after _leave returned, the player is filtered out of _players.
GameLeave(ps, p) == SelectSeq(ps, LAMBDA q : q # p)

(* --------------------------- calls and results ------------------------- *)

\* A call throws: the message is the outcome, no assignment was executed.
Thrown(e) ==
  [err |-> e, players |-> players, moves |-> moves, status |-> status,
   x |-> x, o |-> o, winner |-> winner]

\* The state the call leaves behind becomes the state of the game.
Commit(res) ==
  /\ err' = res.err
  /\ players' = res.players
  /\ moves' = res.moves
  /\ status' = res.status
  /\ x' = res.x
  /\ o' = res.o
  /\ winner' = res.winner

(* ------------------------------ applyMove ------------------------------ *)

\* applyMove, lines 48-52: the piece is deduced from the player id alone.
GamePieceOf(xid, p) == IF xid = p THEN "X" ELSE "O"

\* mutant: only the first recorded move is compared
CellTaken_FirstOnly(ms, r, c) ==
  Len(ms) > 0 /\ ms[1].col = c /\ ms[1].row = r

\* the forEach of _moveIsValid: some recorded move has the same row and col
CellTaken(ms, r, c) == \E i \in 1..Len(ms) : ms[i].col = c /\ ms[i].row = r

\* mutant: the turn is checked only on an empty log
MoveIsValid_FirstTurnOnly(st, ms, piece, r, c) ==
  IF st # "IN_PROGRESS" THEN GAME_NOT_IN_PROGRESS_MESSAGE
  ELSE IF CellTaken(ms, r, c) THEN BOARD_POSITION_NOT_EMPTY_MESSAGE
  ELSE IF Len(ms) = 0 /\ piece = "O" THEN MOVE_NOT_YOUR_TURN_MESSAGE
  ELSE NoError

\* mutant: only a finished game refuses moves
MoveIsValid_OverOnly(st, ms, piece, r, c) ==
  IF st = "OVER" THEN GAME_NOT_IN_PROGRESS_MESSAGE
  ELSE IF CellTaken(ms, r, c) THEN BOARD_POSITION_NOT_EMPTY_MESSAGE
  ELSE IF Len(ms) = 0 /\ piece = "O" THEN MOVE_NOT_YOUR_TURN_MESSAGE
  ELSE IF Len(ms) > 0 /\ piece = ms[Len(ms)].gamePiece
       THEN MOVE_NOT_YOUR_TURN_MESSAGE
  ELSE NoError

\* mutant: the forEach over the recorded moves is missing
MoveIsValid_NoCellCheck(st, ms, piece, r, c) ==
  IF st # "IN_PROGRESS" THEN GAME_NOT_IN_PROGRESS_MESSAGE
  ELSE IF Len(ms) = 0 /\ piece = "O" THEN MOVE_NOT_YOUR_TURN_MESSAGE
  ELSE IF Len(ms) > 0 /\ piece = ms[Len(ms)].gamePiece
       THEN MOVE_NOT_YOUR_TURN_MESSAGE
  ELSE NoError

\* mutant: the check of the first move (lines 84-86) is missing
MoveIsValid_AnyFirst(st, ms, piece, r, c) ==
  IF st # "IN_PROGRESS" THEN GAME_NOT_IN_PROGRESS_MESSAGE
  ELSE IF CellTaken(ms, r, c) THEN BOARD_POSITION_NOT_EMPTY_MESSAGE
  ELSE IF Len(ms) > 0 /\ piece = ms[Len(ms)].gamePiece
       THEN MOVE_NOT_YOUR_TURN_MESSAGE
  ELSE NoError

\* mutant: the turn is checked before the cell
MoveIsValid_TurnFirst(st, ms, piece, r, c) ==
  IF st # "IN_PROGRESS" THEN GAME_NOT_IN_PROGRESS_MESSAGE
  ELSE IF Len(ms) = 0 /\ piece = "O" THEN MOVE_NOT_YOUR_TURN_MESSAGE
  ELSE IF Len(ms) > 0 /\ piece = ms[Len(ms)].gamePiece
       THEN MOVE_NOT_YOUR_TURN_MESSAGE
  ELSE IF CellTaken(ms, r, c) THEN BOARD_POSITION_NOT_EMPTY_MESSAGE
  ELSE NoError

\* _moveIsValid: the message of the first failing check, NoError if none
MoveIsValid(st, ms, piece, r, c) ==
  IF st # "IN_PROGRESS" THEN GAME_NOT_IN_PROGRESS_MESSAGE
  ELSE IF CellTaken(ms, r, c) THEN BOARD_POSITION_NOT_EMPTY_MESSAGE
  ELSE IF Len(ms) = 0 /\ piece = "O" THEN MOVE_NOT_YOUR_TURN_MESSAGE
  ELSE IF Len(ms) > 0 /\ piece = ms[Len(ms)].gamePiece
       THEN MOVE_NOT_YOUR_TURN_MESSAGE
  ELSE NoError

\* The loop of _checkForHorizontalWins from index i on; board[k] is the
\* length of ticTacToeBoard[k].
RECURSIVE HorizontalScan(_, _, _, _)
HorizontalScan(ms, piece, i, board) ==
  IF i > Len(ms) THEN FALSE
  ELSE LET r  == ms[i].row
           b2 == IF ms[i].gamePiece = piece
                 THEN [board EXCEPT ![r] = @ + 1] ELSE board
       IN IF b2[r] = 3 THEN TRUE ELSE HorizontalScan(ms, piece, i + 1, b2)

CheckForHorizontalWins(ms, piece) ==
  HorizontalScan(ms, piece, 1, [k \in Coords |-> 0])

\* The loop of _checkForVerticalWins from index i on.
RECURSIVE VerticalScan(_, _, _, _)
VerticalScan(ms, piece, i, board) ==
  IF i > Len(ms) THEN FALSE
  ELSE LET c  == ms[i].col
           b2 == IF ms[i].gamePiece = piece
                 THEN [board EXCEPT ![c] = @ + 1] ELSE board
       IN IF b2[c] = 3 THEN TRUE ELSE VerticalScan(ms, piece, i + 1, b2)

CheckForVerticalWins(ms, piece) ==
  VerticalScan(ms, piece, 1, [k \in Coords |-> 0])

\* The loop of _checkForDiagonalWins from index i on; d0 and d1 are the
\* lengths of diagonals[0] and diagonals[1].
RECURSIVE DiagonalScan(_, _, _, _, _)
DiagonalScan(ms, piece, i, d0, d1) ==
  IF i > Len(ms) THEN FALSE
  ELSE IF ms[i].gamePiece # piece THEN DiagonalScan(ms, piece, i + 1, d0, d1)
  ELSE LET e0 == IF ms[i].col = ms[i].row THEN d0 + 1 ELSE d0
           e1 == IF ms[i].col + ms[i].row = 2 THEN d1 + 1 ELSE d1
       IN IF ms[i].col = ms[i].row /\ e0 = 3 THEN TRUE
          ELSE IF ms[i].col + ms[i].row = 2 /\ e1 = 3 THEN TRUE
          ELSE DiagonalScan(ms, piece, i + 1, e0, e1)

CheckForDiagonalWins(ms, piece) == DiagonalScan(ms, piece, 1, 0, 0)

PlayerHasWon(ms, piece) ==
  \/ CheckForHorizontalWins(ms, piece)
  \/ CheckForVerticalWins(ms, piece)
  \/ CheckForDiagonalWins(ms, piece)

\* status after an accepted move that produced the log ms
StatusAfterMove(st, ms, piece) ==
  IF PlayerHasWon(ms, piece) THEN "OVER"
  ELSE IF Len(ms) = BoardCells THEN "OVER"
  ELSE st

\* mutant: the full board is tested before the win
WinnerAfterMove_TieFirst(w, ms, piece, p) ==
  IF Len(ms) = BoardCells THEN NoPlayer
  ELSE IF PlayerHasWon(ms, piece) THEN p
  ELSE w

\* winner after an accepted move by p that produced the log ms
WinnerAfterMove(w, ms, piece, p) ==
  IF PlayerHasWon(ms, piece) THEN p
  ELSE IF Len(ms) = BoardCells THEN NoPlayer
  ELSE w

\* the marks a caller can put in the gamePiece field of a move
GamePieces == {"X", "O"}

\* applyMove, lines 48-52: the mark of the incoming move is overwritten with
\* the mark deduced from the player id
StampedMove(xid, p, mv) == [mv EXCEPT !.gamePiece = GamePieceOf(xid, p)]

\* applyMove(p, move (r, c) with mark g) in the current state: what
\* _moveIsValid says of the stamped move
MoveError(p, r, c, g) ==
  LET mv == StampedMove(x, p, [row |-> r, col |-> c, gamePiece |-> g])
  IN MoveIsValid(status, moves, mv.gamePiece, r, c)

\* applyMove(p, move (r, c) with mark g) in the current state: its outcome
\* and the state it leaves behind
ApplyMoveResult(p, r, c, g) ==
  LET mv    == StampedMove(x, p, [row |-> r, col |-> c, gamePiece |-> g])
      piece == mv.gamePiece
      e     == MoveError(p, r, c, g)
      ms    == Append(moves, mv)
  IN IF e # NoError
     THEN Thrown(e)
     ELSE [err |-> NoError, players |-> players, moves |-> ms,
           status |-> StatusAfterMove(status, ms, piece),
           x |-> x, o |-> o,
           winner |-> WinnerAfterMove(winner, ms, piece, p)]

ApplyMove(p, r, c, g) ==
  LET res == ApplyMoveResult(p, r, c, g)
  IN Commit(res) /\ UNCHANGED areaVars

(* -------------------------------- join --------------------------------- *)

\* mutant: a full game is not refused
JoinError_NoFull(ps, p) ==
  IF InPlayers(ps, p) THEN PLAYER_ALREADY_IN_GAME_MESSAGE ELSE NoError

\* mutant: the number of players is tested before the membership
JoinError_FullFirst(ps, p) ==
  IF Len(ps) = 2 THEN GAME_FULL_MESSAGE
  ELSE IF InPlayers(ps, p) THEN PLAYER_ALREADY_IN_GAME_MESSAGE
  ELSE NoError

\* _join: the message of the failing check, NoError if the player is added
JoinError(ps, p) ==
  IF InPlayers(ps, p) THEN PLAYER_ALREADY_IN_GAME_MESSAGE
  ELSE IF Len(ps) = 2 THEN GAME_FULL_MESSAGE
  ELSE NoError

\* _join, lines 192-193: state.x after the player is added
JoinX(ps, p, xid) == IF Len(ps) = 0 THEN p ELSE xid

\* _join, lines 194-195: state.o after the player is added
JoinO(ps, p, oid) == IF Len(ps) = 1 THEN p ELSE oid

\* mutant: the first joiner already starts the game
JoinStatus_Eager(ps, st) == IF Len(ps) <= 1 THEN "IN_PROGRESS" ELSE st

\* _join, lines 194-196: state.status after the player is added
JoinStatus(ps, st) == IF Len(ps) = 1 THEN "IN_PROGRESS" ELSE st

\* join(p) in the current state: its outcome and the state it leaves behind
JoinResult(p) ==
  LET e == JoinError(players, p)
  IN IF e # NoError
     THEN Thrown(e)
     ELSE [err |-> NoError, players |-> GameJoin(players, p), moves |-> moves,
           status |-> JoinStatus(players, status),
           x |-> JoinX(players, p, x), o |-> JoinO(players, p, o),
           winner |-> winner]

Join(p) ==
  LET res == JoinResult(p)
  IN Commit(res) /\ UNCHANGED areaVars

(* -------------------------------- leave -------------------------------- *)

\* mutant: only an empty game refuses a leave
LeaveError_EmptyOnly(ps, p) ==
  IF Len(ps) = 0 THEN PLAYER_NOT_IN_GAME_MESSAGE ELSE NoError

LeaveError(ps, p) ==
  IF ~InPlayers(ps, p) THEN PLAYER_NOT_IN_GAME_MESSAGE ELSE NoError

\* _leave, lines 217-223: the status it assigns
LeaveStatus(st) == IF st = "IN_PROGRESS" THEN "OVER" ELSE "WAITING_TO_START"

\* mutant: the comparison of the forfeit is inverted
LeaveWinner_Inverted(st, ps, p, w) ==
  IF st = "IN_PROGRESS"
  THEN (IF ps[1] # p THEN ps[2] ELSE ps[1])
  ELSE w

\* _leave, lines 217-220: the winner it assigns (only when IN_PROGRESS)
LeaveWinner(st, ps, p, w) ==
  IF st = "IN_PROGRESS"
  THEN (IF ps[1] = p THEN ps[2] ELSE ps[1])
  ELSE w

\* leave(p) in the current state: its outcome and the state it leaves behind
LeaveResult(p) ==
  LET e == LeaveError(players, p)
  IN IF e # NoError
     THEN Thrown(e)
     ELSE [err |-> NoError, players |-> GameLeave(players, p), moves |-> moves,
           status |-> LeaveStatus(status), x |-> x, o |-> o,
           winner |-> LeaveWinner(status, players, p, winner)]

Leave(p) ==
  LET res == LeaveResult(p)
  IN Commit(res) /\ UNCHANGED areaVars

(* ---------------------------- specification ---------------------------- *)

Init ==
  /\ players = <<>>
  /\ moves = <<>>
  /\ status = "WAITING_TO_START"
  /\ x = NoPlayer
  /\ o = NoPlayer
  /\ winner = NoPlayer
  /\ err = NoError
  /\ hasGame = FALSE
  /\ history = <<>>
  /\ emitted = <<>>

\* The cells the callers target: an occupied cell, or one of the first free
\* cells in row-major order.
CellIndex(r, c) == BoardSize * r + c

FreeBefore(ms, k) ==
  Cardinality({j \in 0..(k - 1) :
                 ~CellTaken(ms, j \div BoardSize, j % BoardSize)})

\* the callers vary the first MaxVaried moves of a log and then fill the
\* board in row-major order
FreeChoices(ms) == IF Len(ms) < MaxVaried THEN MaxChoices ELSE 1

Targeted(ms, r, c) ==
  CellTaken(ms, r, c) \/ FreeBefore(ms, CellIndex(r, c)) < FreeChoices(ms)

TargetCells == {rc \in Coords \X Coords : Targeted(moves, rc[1], rc[2])}

\* Spec: every call by every player, accepted or rejected, on move logs of at
\* most MaxMoves entries.
BoundedMove(p, r, c, g) ==
  /\ ~(Len(moves) >= MaxMoves /\ MoveError(p, r, c, g) = NoError)
  /\ ApplyMove(p, r, c, g)

Next ==
  \/ \E p \in Players : Join(p)
  \/ \E p \in Players : Leave(p)
  \/ \E rc \in TargetCells : \E p \in Players : \E g \in GamePieces :
       BoundedMove(p, rc[1], rc[2], g)

Spec == Init /\ [][Next]_vars

\* SpecPlay: whole games, in which every call is one the engine accepts.
PlayJoin(p) == JoinError(players, p) = NoError /\ Join(p)

PlayLeave(p) == LeaveError(players, p) = NoError /\ Leave(p)

PlayMove(p, r, c, g) ==
  /\ MoveError(p, r, c, g) = NoError
  /\ ApplyMove(p, r, c, g)

NextPlay ==
  \/ \E p \in Players : PlayJoin(p)
  \/ \E p \in Players : PlayLeave(p)
  \/ \E rc \in TargetCells : \E p \in Players : \E g \in GamePieces :
       PlayMove(p, rc[1], rc[2], g)

SpecPlay == Init /\ [][NextPlay]_vars

(* ------------------- win detection of the variant engine --------------- *)

\* mutant: a move with another mark is recorded instead of emptying the list
DiagonalsAfter_NoReset(d, piece) == Append(d, piece)

\* _playerHasWon of the variant: the diagonal list after a move with mark
\* piece on that diagonal; a move with another mark than the last one of
\* the list empties the list and is not recorded
DiagonalsAfter(d, piece) ==
  IF Len(d) > 0 /\ d[Len(d)] # piece THEN <<>> ELSE Append(d, piece)

\* countInRow and countInColumn for the move at position i: the move itself
\* and the later moves with its mark in its row, in its column
CountInRow(ms, i) ==
  1 + Cardinality({j \in (i + 1)..Len(ms) :
                     ms[j].row = ms[i].row /\ ms[j].gamePiece = ms[i].gamePiece})

CountInColumn(ms, i) ==
  1 + Cardinality({j \in (i + 1)..Len(ms) :
                     ms[j].col = ms[i].col /\ ms[j].gamePiece = ms[i].gamePiece})

\* the loop of the variant from position i on, with the two diagonal lists
\* built so far
RECURSIVE VariantWinScan(_, _, _, _)
VariantWinScan(ms, i, topLeft, topRight) ==
  IF i > Len(ms) THEN FALSE
  ELSE LET m == ms[i]
           tl == IF m.col = m.row THEN DiagonalsAfter(topLeft, m.gamePiece)
                 ELSE topLeft
           tr == IF m.col + m.row = 2 THEN DiagonalsAfter(topRight, m.gamePiece)
                 ELSE topRight
       IN IF \/ CountInRow(ms, i) = 3
             \/ CountInColumn(ms, i) = 3
             \/ Len(tl) = 3
             \/ Len(tr) = 3
          THEN TRUE
          ELSE VariantWinScan(ms, i + 1, tl, tr)

\* _playerHasWon(moves) of the variant engine
VariantPlayerHasWon(ms) == VariantWinScan(ms, 1, <<>>, <<>>)

\* SpecWin: the move logs that accepted moves produce in a game that the
\* first two players have just started, every free cell being open to the
\* player whose turn it is, until the game is OVER.
InitWin ==
  /\ players = <<1, 2>>
  /\ x = 1
  /\ o = 2
  /\ moves = <<>>
  /\ status = "IN_PROGRESS"
  /\ winner = NoPlayer
  /\ err = NoError
  /\ hasGame = FALSE
  /\ history = <<>>
  /\ emitted = <<>>

WinMove(i, r, c) == PlayMove(players[i], r, c, "X")

NextWin ==
  \E rc \in Coords \X Coords : \E i \in 1..Len(players) : WinMove(i, rc[1], rc[2])

SpecWin == InitWin /\ [][NextWin]_vars

(* ------------------------------ game area ----------------------------- *)

GAME_ID_MISSMATCH_MESSAGE == "GAME_ID_MISSMATCH_MESSAGE"

\* the id of the area's game (Game.id), and the ids a command can carry
GameID == "game"

CommandGameIDs == {"game", "another game"}

\* Player.userName: the players have distinct user names
UserName(p) == <<"userName", p>>

\* this.occupants (kept by the base class of the area), as the handlers read
\* it: a list of at least two distinct players
OccupantLists ==
  {occ \in UNION {[1..n -> Players] : n \in 2..NumPlayers} :
     \A i \in 1..Len(occ) : \A j \in 1..Len(occ) : occ[i] = occ[j] => i = j}

\* an object literal { [k1]: v1, [k2]: v2 }: the later key overwrites
ScoresObject(k1, v1, k2, v2) ==
  [k \in {k1, k2} |-> IF k = k2 THEN v2 ELSE v1]

INVALID_COMMAND_MESSAGE == "INVALID_COMMAND_MESSAGE"

\* the value a command returns: undefined, or { gameID }
NoValue == "undefined"

\* mutant: the observers are notified twice
EmitAreaChanged_Twice(em, h) == Append(Append(em, h), h)

\* this._emitAreaChanged(): the observers are notified, and what they see of
\* the history is the history at that moment; em is the list of the
\* notifications of the command so far
EmitAreaChanged(em, h) == Append(em, h)

\* a call of the area: the result of the engine call res, with the game and
\* the history the handler leaves behind, the notifications it emitted and
\* the value it returned
AreaResult(res, hg, h, em, ret) ==
  [err |-> res.err, players |-> res.players, moves |-> res.moves,
   status |-> res.status, x |-> res.x, o |-> res.o, winner |-> res.winner,
   hasGame |-> hg, history |-> h, emitted |-> em, returned |-> ret]

\* a throw of the handler itself, before it called the engine
AreaThrown(e) == AreaResult(Thrown(e), hasGame, history, <<>>, NoValue)

\* The state the handler leaves behind becomes the state of the area.
CommitArea(res) ==
  /\ Commit(res)
  /\ hasGame' = res.hasGame
  /\ history' = res.history
  /\ emitted' = res.emitted

\* mutant: a game is created by every join command
HandleJoinCommandResult_AlwaysNew(p) ==
  LET res == IF players = <<>> THEN JoinResult(p)
             ELSE [err |-> NoError, players |-> <<p>>, moves |-> <<>>,
                   status |-> "WAITING_TO_START", x |-> p, o |-> NoPlayer,
                   winner |-> NoPlayer]
  IN AreaResult(res, TRUE, history, EmitAreaChanged(<<>>, history), GameID)

\* _handleJoinCommand: the game is created if there is none, then joined;
\* a join that throws leaves the handler before the notification
HandleJoinCommandResult(p) ==
  LET res == JoinResult(p)
  IN IF res.err # NoError THEN AreaResult(res, TRUE, history, <<>>, NoValue)
     ELSE AreaResult(res, TRUE, history, EmitAreaChanged(<<>>, history), GameID)

\* _handleLeaveCommand, lines 110-120: the record of a game that a leave
\* left OVER
LeaveGameResult(w, occ) ==
  [gameID |-> GameID,
   scores |-> ScoresObject(
     IF occ[1] = w THEN UserName(occ[1]) ELSE UserName(occ[2]), 1,
     IF occ[1] # w THEN UserName(occ[1]) ELSE UserName(occ[2]), 0)]

\* mutant: the record of a forfeit replaces the history
HandleLeaveCommandResult_Overwrite(p, gid, occ) ==
  IF ~hasGame THEN AreaThrown(GAME_NOT_IN_PROGRESS_MESSAGE)
  ELSE IF gid # GameID THEN AreaThrown(GAME_ID_MISSMATCH_MESSAGE)
  ELSE LET res == LeaveResult(p)
           em == EmitAreaChanged(<<>>, history)
       IN IF res.err # NoError
          THEN AreaResult(res, hasGame, history, <<>>, NoValue)
          ELSE IF res.status = "OVER"
          THEN AreaResult(res, hasGame, <<LeaveGameResult(res.winner, occ)>>,
                          em, NoValue)
          ELSE AreaResult(res, hasGame, history, em, NoValue)

\* mutant: a failure of the engine's leave is caught by the handler
HandleLeaveCommandResult_Caught(p, gid, occ) ==
  IF ~hasGame THEN AreaThrown(GAME_NOT_IN_PROGRESS_MESSAGE)
  ELSE IF gid # GameID THEN AreaThrown(GAME_ID_MISSMATCH_MESSAGE)
  ELSE LET res == LeaveResult(p)
           em == EmitAreaChanged(<<>>, history)
       IN IF res.err # NoError
          THEN AreaResult(Thrown(NoError), hasGame, history, em, NoValue)
          ELSE IF res.status = "OVER"
          THEN AreaResult(res, hasGame,
                          Append(history, LeaveGameResult(res.winner, occ)),
                          em, NoValue)
          ELSE AreaResult(res, hasGame, history, em, NoValue)

\* _handleLeaveCommand
HandleLeaveCommandResult(p, gid, occ) ==
  IF ~hasGame THEN AreaThrown(GAME_NOT_IN_PROGRESS_MESSAGE)
  ELSE IF gid # GameID THEN AreaThrown(GAME_ID_MISSMATCH_MESSAGE)
  ELSE LET res == LeaveResult(p)
           em == EmitAreaChanged(<<>>, history)
       IN IF res.err # NoError
          THEN AreaResult(res, hasGame, history, <<>>, NoValue)
          ELSE IF res.status = "OVER"
          THEN AreaResult(res, hasGame,
                          Append(history, LeaveGameResult(res.winner, occ)),
                          em, NoValue)
          ELSE AreaResult(res, hasGame, history, em, NoValue)

\* _handleMoveCommand, lines 155-174: the record of a game that a move left
\* OVER
MoveGameResult(p, w, occ) ==
  IF w # NoPlayer
  THEN [gameID |-> GameID,
        scores |-> ScoresObject(
          UserName(p), 1,
          IF UserName(occ[1]) # UserName(p)
          THEN UserName(occ[1]) ELSE UserName(occ[2]), 0)]
  ELSE [gameID |-> GameID,
        scores |-> ScoresObject(UserName(occ[1]), 0, UserName(occ[2]), 0)]

\* mutant: the id of the command is not compared with the id of the game
HandleMoveCommandResult_NoIdCheck(p, gid, r, c, g, occ) ==
  IF ~hasGame THEN AreaThrown(GAME_NOT_IN_PROGRESS_MESSAGE)
  ELSE LET res == ApplyMoveResult(p, r, c, g)
           em == EmitAreaChanged(<<>>, history)
       IN IF res.err # NoError
          THEN AreaResult(res, hasGame, history, <<>>, NoValue)
          ELSE IF res.status = "OVER"
          THEN AreaResult(res, hasGame,
                          Append(history, MoveGameResult(p, res.winner, occ)),
                          em, NoValue)
          ELSE AreaResult(res, hasGame, history, em, NoValue)

\* _handleMoveCommand
HandleMoveCommandResult(p, gid, r, c, g, occ) ==
  IF ~hasGame THEN AreaThrown(GAME_NOT_IN_PROGRESS_MESSAGE)
  ELSE IF GameID # gid THEN AreaThrown(GAME_ID_MISSMATCH_MESSAGE)
  ELSE LET res == ApplyMoveResult(p, r, c, g)
           em == EmitAreaChanged(<<>>, history)
       IN IF res.err # NoError
          THEN AreaResult(res, hasGame, history, <<>>, NoValue)
          ELSE IF res.status = "OVER"
          THEN AreaResult(res, hasGame,
                          Append(history, MoveGameResult(p, res.winner, occ)),
                          em, NoValue)
          ELSE AreaResult(res, hasGame, history, em, NoValue)

\* the types of the commands: the three the area supports, and one it does
\* not
CommandTypes == {"JoinGame", "LeaveGame", "GameMove", "ConversationAreaUpdate"}

\* mutant: a command of another type is handled as a LeaveGame command
HandleCommandResult_LeaveByDefault(type, p, gid, r, c, g, occ) ==
  IF type = "JoinGame" THEN HandleJoinCommandResult(p)
  ELSE IF type = "GameMove" THEN HandleMoveCommandResult(p, gid, r, c, g, occ)
  ELSE HandleLeaveCommandResult(p, gid, occ)

\* handleCommand
HandleCommandResult(type, p, gid, r, c, g, occ) ==
  IF type = "JoinGame" THEN HandleJoinCommandResult(p)
  ELSE IF type = "LeaveGame" THEN HandleLeaveCommandResult(p, gid, occ)
  ELSE IF type = "GameMove" THEN HandleMoveCommandResult(p, gid, r, c, g, occ)
  ELSE AreaThrown(INVALID_COMMAND_MESSAGE)

HandleJoinCommand(p) ==
  LET res == HandleJoinCommandResult(p)
  IN CommitArea(res)

HandleLeaveCommand(p, gid, occ) ==
  LET res == HandleLeaveCommandResult(p, gid, occ)
  IN CommitArea(res)

HandleMoveCommand(p, gid, r, c, g, occ) ==
  LET res == HandleMoveCommandResult(p, gid, r, c, g, occ)
  IN CommitArea(res)

\* SpecArea: the commands the area accepts, sent while all the players are in
\* the area, which they entered in the order of their ids or in the reverse
\* order; move commands are sent by the players in the game. The area is
\* observed until the first record is in the history.
OccupantOrders ==
  {[i \in 1..NumPlayers |-> i], [i \in 1..NumPlayers |-> NumPlayers + 1 - i]}

AreaJoin(p) ==
  /\ history = <<>>
  /\ JoinError(players, p) = NoError
  /\ HandleJoinCommand(p)

AreaLeave(p, gid, occ) ==
  /\ history = <<>>
  /\ hasGame /\ gid = GameID
  /\ LeaveError(players, p) = NoError
  /\ HandleLeaveCommand(p, gid, occ)

AreaMove(p, gid, r, c, g, occ) ==
  /\ history = <<>>
  /\ hasGame /\ gid = GameID
  /\ InPlayers(players, p)
  /\ MoveError(p, r, c, g) = NoError
  /\ HandleMoveCommand(p, gid, r, c, g, occ)

NextArea ==
  \/ \E p \in Players : AreaJoin(p)
  \/ \E p \in Players : \E gid \in CommandGameIDs :
       \E occ \in OccupantOrders : AreaLeave(p, gid, occ)
  \/ \E rc \in TargetCells : \E p \in Players : \E gid \in CommandGameIDs :
       \E g \in GamePieces : \E occ \in OccupantOrders :
         AreaMove(p, gid, rc[1], rc[2], g, occ)

SpecArea == Init /\ [][NextArea]_vars

\* handleCommand: the state the command leaves behind becomes the state of
\* the area
HandleCommand(type, p, gid, r, c, g, occ) ==
  LET res == HandleCommandResult(type, p, gid, r, c, g, occ)
  IN CommitArea(res)

\* SpecCommands: every command a player can send, accepted or rejected, of
\* the three supported types and of a type the area does not support, with
\* the id of the game or another id, while all the players are in the area,
\* which they entered in the order of their ids. A move command targets a
\* recorded cell or the first free cell in row-major order; the move log is
\* kept within MaxMoves entries, and the area is observed until MaxHistory
\* records are in the history.
AreaOccupants == [i \in 1..NumPlayers |-> i]

CommandCells ==
  {rc \in Coords \X Coords :
     CellTaken(moves, rc[1], rc[2]) \/ FreeBefore(moves, CellIndex(rc[1], rc[2])) = 0}

OtherGameIDs == CommandGameIDs \ {GameID}

CommandJoin(p) ==
  /\ Len(history) < MaxHistory
  /\ HandleCommand("JoinGame", p, GameID, 0, 0, "X", AreaOccupants)

CommandLeave(p, gid) ==
  /\ Len(history) < MaxHistory
  /\ HandleCommand("LeaveGame", p, gid, 0, 0, "X", AreaOccupants)

CommandMove(p, gid, r, c, g) ==
  /\ Len(history) < MaxHistory
  /\ ~(Len(moves) >= MaxMoves /\ MoveError(p, r, c, g) = NoError)
  /\ HandleCommand("GameMove", p, gid, r, c, g, AreaOccupants)

CommandOther(p) ==
  /\ Len(history) < MaxHistory
  /\ HandleCommand("ConversationAreaUpdate", p, GameID, 0, 0, "X", AreaOccupants)

NextCommands ==
  \/ \E p \in Players : CommandJoin(p)
  \/ \E p \in Players : \E gid \in CommandGameIDs : CommandLeave(p, gid)
  \/ \E rc \in CommandCells : \E p \in Players : \E g \in GamePieces :
       CommandMove(p, GameID, rc[1], rc[2], g)
  \/ \E p \in Players : \E gid \in OtherGameIDs : CommandMove(p, gid, 0, 0, "X")
  \/ \E p \in Players : CommandOther(p)

SpecCommands == Init /\ [][NextCommands]_vars

(* ------------------------- vocabulary of the claims -------------------- *)

\* the 8 lines of the board: 3 rows, 3 columns, the diagonal r = c and the
\* anti-diagonal r + c = 2
Lines ==
  {{<<r, c>> : c \in Coords} : r \in Coords}
    \cup {{<<r, c>> : r \in Coords} : c \in Coords}
    \cup {{<<r, r>> : r \in Coords}}
    \cup {{<<r, 2 - r>> : r \in Coords}}

\* the cells that hold the given mark in the log ms
MarkedCells(ms, piece) ==
  {<<ms[i].row, ms[i].col>> : i \in {j \in 1..Len(ms) : ms[j].gamePiece = piece}}

LineComplete(ms, piece) == \E L \in Lines : L \subseteq MarkedCells(ms, piece)

Occupied(r, c) == \E i \in 1..Len(moves) : moves[i].row = r /\ moves[i].col = c

\* the mark a player holds: X for state.x, O for state.o
MarkOf(p) == IF p = x THEN "X" ELSE IF p = o THEN "O" ELSE "none"

\* it is not p's turn: O on an empty log, or the mark of the last move
OutOfTurn(p) ==
  IF Len(moves) = 0 THEN MarkOf(p) = "O"
  ELSE MarkOf(p) = moves[Len(moves)].gamePiece

\* the call left moves, status, winner, x, o and the players as they were
NothingChanged(res) ==
  /\ res.moves = moves
  /\ res.status = status
  /\ res.winner = winner
  /\ res.x = x
  /\ res.o = o
  /\ res.players = players

\* applyMove(q, (r, c)) is accepted in the state res that a call left behind
AcceptedIn(res, q, r, c) ==
  MoveIsValid(res.status, res.moves, GamePieceOf(res.x, q), r, c) = NoError

\* the state of a newly constructed game
NewGame ==
  /\ players = <<>>
  /\ x = NoPlayer
  /\ o = NoPlayer
  /\ moves = <<>>
  /\ winner = NoPlayer
  /\ status = "WAITING_TO_START"

\* the state of a game on which nothing but the first join has happened
AfterFirstJoin ==
  /\ Len(players) = 1
  /\ x = players[1]
  /\ o = NoPlayer
  /\ moves = <<>>
  /\ winner = NoPlayer
  /\ status = "WAITING_TO_START"

(* -------------------------------- claims ------------------------------- *)

\* C1: once the status is OVER, no join, leave or applyMove makes it
\* WAITING_TO_START or IN_PROGRESS again.
C1_OverIsTerminal == [][status = "OVER" => status' = "OVER"]_vars

\* C2, first half: an accepted applyMove by p ends the game with winner p
\* exactly when p's mark now fills one of the 8 lines.
C2_WinIffLine ==
  \A p \in Players : \A r \in Coords : \A c \in Coords :
    \A g \in GamePieces :
    LET res == ApplyMoveResult(p, r, c, g)
    IN res.err = NoError
         => ((res.status = "OVER" /\ res.winner = p)
               <=> LineComplete(res.moves, GamePieceOf(x, p)))

\* C2: win detection is exact (an accepted applyMove by p ends the game with
\* winner p exactly when p's mark now fills one of the 8 lines), and
\* consequently no state with status IN_PROGRESS has a completed line.
C2_WinDetectionExact ==
  /\ \A p \in Players : \A r \in Coords : \A c \in Coords :
     \A g \in GamePieces :
       LET res == ApplyMoveResult(p, r, c, g)
       IN res.err = NoError
            => ((res.status = "OVER" /\ res.winner = p)
                  <=> LineComplete(res.moves, GamePieceOf(x, p)))
  /\ status = "IN_PROGRESS"
       => ~LineComplete(moves, "X") /\ ~LineComplete(moves, "O")

\* C3: in an IN_PROGRESS game, whatever the move log, leave by one of the two
\* players in the game sets status to OVER and winner to the other player in
\* the game, and leaves the move log, x and o unchanged.
C3_Forfeit ==
  status = "IN_PROGRESS" =>
    /\ Len(players) = 2
    /\ players[1] # players[2]
    /\ \A i \in 1..2 :
         LET res == LeaveResult(players[i])
         IN /\ res.err = NoError
            /\ res.status = "OVER"
            /\ res.winner = players[3 - i]
            /\ res.moves = moves /\ res.x = x /\ res.o = o

\* C3 witness: a game with recorded moves and no completed line was
\* forfeited; the remaining player is the winner.
C3_Witness ==
  /\ status = "OVER"
  /\ err = NoError
  /\ Len(moves) > 0
  /\ ~LineComplete(moves, "X") /\ ~LineComplete(moves, "O")
  /\ Len(players) = 1
  /\ winner = players[1]

C5_OccupiedCell ==
  status = "IN_PROGRESS" =>
    \A p \in Players : \A r \in Coords : \A c \in Coords :
    \A g \in GamePieces :
      Occupied(r, c) =>
        LET res == ApplyMoveResult(p, r, c, g)
        IN /\ res.err = BOARD_POSITION_NOT_EMPTY_MESSAGE
           /\ NothingChanged(res)

\* C5 witness: a move on an occupied cell was refused in a game with marks of
\* both players on the board.
C5_Witness ==
  /\ err = BOARD_POSITION_NOT_EMPTY_MESSAGE
  /\ status = "IN_PROGRESS"
  /\ Len(moves) >= 2

\* C6: applyMove by any player while the status is WAITING_TO_START or OVER
\* fails with GAME_NOT_IN_PROGRESS and leaves moves, status, winner, x and o
\* unchanged.
C6_NotInProgress ==
  status # "IN_PROGRESS" =>
    \A p \in Players : \A r \in Coords : \A c \in Coords :
    \A g \in GamePieces :
      LET res == ApplyMoveResult(p, r, c, g)
      IN /\ res.err = GAME_NOT_IN_PROGRESS_MESSAGE
         /\ NothingChanged(res)

\* C6 witness: a move was refused in a finished game that has recorded moves.
C6_Witness ==
  /\ err = GAME_NOT_IN_PROGRESS_MESSAGE
  /\ status = "OVER"
  /\ Len(moves) > 0

\* C7, first half: the ninth accepted move, when it completes no line, sets
\* status OVER and unsets the winner.
C7_NinthMoveTie ==
  \A p \in Players : \A r \in Coords : \A c \in Coords :
    \A g \in GamePieces :
    LET res == ApplyMoveResult(p, r, c, g)
    IN (res.err = NoError /\ Len(res.moves) = BoardCells
          /\ ~LineComplete(res.moves, GamePieceOf(x, p)))
         => (res.status = "OVER" /\ res.winner = NoPlayer)

\* C7: the ninth accepted move, when it completes no line, sets status OVER
\* and unsets the winner; a game with nine recorded moves is never
\* IN_PROGRESS.
C7_Tie ==
  /\ \A p \in Players : \A r \in Coords : \A c \in Coords :
     \A g \in GamePieces :
       LET res == ApplyMoveResult(p, r, c, g)
       IN (res.err = NoError /\ Len(res.moves) = BoardCells
             /\ ~LineComplete(res.moves, GamePieceOf(x, p)))
            => (res.status = "OVER" /\ res.winner = NoPlayer)
  /\ Len(moves) = BoardCells => status # "IN_PROGRESS"

\* C8: on a new game the first successful join sets x to the joiner and
\* leaves status WAITING_TO_START, o unset, no moves and no winner; the second
\* successful join, by a different player, sets o to that player and status
\* to IN_PROGRESS with x, moves and winner unchanged.
C8_JoinTransitions ==
  /\ NewGame =>
       \A p \in Players :
         LET res == JoinResult(p)
         IN /\ res.err = NoError
            /\ res.x = p /\ res.o = NoPlayer
            /\ res.status = "WAITING_TO_START"
            /\ res.moves = <<>> /\ res.winner = NoPlayer
            /\ res.players = <<p>>
  /\ AfterFirstJoin =>
       \A p \in Players \ {players[1]} :
         LET res == JoinResult(p)
         IN /\ res.err = NoError
            /\ res.o = p /\ res.status = "IN_PROGRESS"
            /\ res.x = x /\ res.moves = moves /\ res.winner = winner
            /\ res.players = <<x, p>>

\* C8 witness: two players have joined a new game.
C8_Witness ==
  /\ Len(players) = 2
  /\ x = players[1] /\ o = players[2] /\ x # o
  /\ status = "IN_PROGRESS"
  /\ moves = <<>> /\ winner = NoPlayer /\ err = NoError

\* C9: join by a player already in the game fails with
\* PLAYER_ALREADY_IN_GAME, join by another player while two players are in
\* the game fails with GAME_FULL; both leave x, o, moves, status, winner and
\* the players in the game unchanged.
C9_JoinFailures ==
  \A p \in Players :
    LET res == JoinResult(p)
    IN /\ InPlayers(players, p)
            => /\ res.err = PLAYER_ALREADY_IN_GAME_MESSAGE
               /\ NothingChanged(res)
       /\ (~InPlayers(players, p) /\ Len(players) = 2)
            => /\ res.err = GAME_FULL_MESSAGE
               /\ NothingChanged(res)

\* C9 witness: a third player was refused by a full game.
C9_Witness ==
  /\ err = GAME_FULL_MESSAGE
  /\ Len(players) = 2
  /\ status = "IN_PROGRESS"

\* C10: in every state, leave by a player who is not in the game fails with
\* PLAYER_NOT_IN_GAME and leaves status, winner, moves, x, o and the players
\* in the game unchanged.
C10_LeaveNonParticipant ==
  \A p \in Players :
    ~InPlayers(players, p) =>
      LET res == LeaveResult(p)
      IN /\ res.err = PLAYER_NOT_IN_GAME_MESSAGE
         /\ NothingChanged(res)

\* C10 witness: a player outside a game in progress tried to leave it.
C10_Witness ==
  /\ err = PLAYER_NOT_IN_GAME_MESSAGE
  /\ status = "IN_PROGRESS"
  /\ Len(players) = 2

\* C11, first half: the mark the caller supplies has no effect on the call,
\* and a caller holding one mark never gets the other mark recorded.
C11_SuppliedMarkIgnored ==
  \A p \in Players : \A r \in Coords : \A c \in Coords :
    /\ ApplyMoveResult(p, r, c, "X") = ApplyMoveResult(p, r, c, "O")
    /\ \A g \in GamePieces :
         LET res == ApplyMoveResult(p, r, c, g)
         IN (res.err = NoError /\ MarkOf(p) # "none")
              => res.moves[Len(res.moves)].gamePiece = MarkOf(p)

\* C11: for every accepted applyMove, whatever mark the caller supplied, the
\* entry appended to the move log carries X when the mover's id equals
\* state.x and O when it equals state.o.
C11_MarkFromPlayerId ==
  \A p \in Players : \A r \in Coords : \A c \in Coords :
    \A g \in GamePieces :
      LET res == ApplyMoveResult(p, r, c, g)
      IN res.err = NoError
           => /\ Len(res.moves) = Len(moves) + 1
              /\ p = x => res.moves[Len(res.moves)].gamePiece = "X"
              /\ p = o => res.moves[Len(res.moves)].gamePiece = "O"

\* C12: in every reachable state the move log has at most 9 entries and no
\* two entries share a cell; every accepted applyMove appends exactly one
\* entry (the cell it was called with) and keeps the earlier entries, every
\* rejected applyMove leaves the log unchanged, and so do join and leave.
C12_MoveLogIntegrity ==
  /\ Len(moves) <= BoardCells
  /\ \A i \in 1..Len(moves) : \A j \in 1..Len(moves) :
       (moves[i].row = moves[j].row /\ moves[i].col = moves[j].col) => i = j
  /\ \A p \in Players : \A r \in Coords : \A c \in Coords :
       \A g \in GamePieces :
         LET res == ApplyMoveResult(p, r, c, g)
         IN IF res.err = NoError
            THEN /\ Len(res.moves) = Len(moves) + 1
                 /\ SubSeq(res.moves, 1, Len(moves)) = moves
                 /\ res.moves[Len(res.moves)].row = r
                 /\ res.moves[Len(res.moves)].col = c
            ELSE res.moves = moves
  /\ \A p \in Players :
       JoinResult(p).moves = moves /\ LeaveResult(p).moves = moves

\* C12 witness: nine accepted moves filled the board.
C12_Witness ==
  /\ Len(moves) = BoardCells
  /\ status = "OVER"
  /\ err = NoError
  /\ \A r \in Coords : \A c \in Coords : Occupied(r, c)

\* C13: in every reachable state the marks in the move log alternate
\* starting with X: the entry at an even 0-based index has mark X and the
\* entry at an odd 0-based index has mark O.
C13_Alternation ==
  \A i \in 1..Len(moves) :
    moves[i].gamePiece = (IF (i - 1) % 2 = 0 THEN "X" ELSE "O")

\* C13 witness: a game that X had won was started again and O has moved in
\* it.
C13_Witness ==
  /\ Len(moves) >= 6
  /\ LineComplete(SubSeq(moves, 1, Len(moves) - 1), "X")
  /\ moves[Len(moves)].gamePiece = "O"
  /\ status = "IN_PROGRESS"

\* C14, one call: a join, leave or applyMove on a game whose status is OVER
\* changes neither the move log nor the winner.
C14_CallOnOverGame ==
  [][status = "OVER" => (moves' = moves /\ winner' = winner)]_vars

\* C14, the winner marks the end: the winner is assigned only by a call that
\* leaves the status OVER, so a set winner says that the game has ended.
C14_WinnerSetOnlyAtEnd == [][winner' # winner => status' = "OVER"]_vars

\* C14: once the status is OVER, the move log and the winner never change
\* under any later join, leave or applyMove; a game with a winner has ended
\* (the winner is set only together with status OVER), so from then on every
\* call keeps the winner and the move log.
C14_ImmutableAfterEnd ==
  [][(status = "OVER" \/ winner # NoPlayer)
       => (winner' = winner /\ moves' = moves)]_vars

\* C15, leave and applyMove: only join assigns the marks; once set they are
\* never unset.
C15_OnlyJoinAssignsMarks ==
  /\ \A p \in Players : LeaveResult(p).x = x /\ LeaveResult(p).o = o
  /\ \A p \in Players : \A r \in Coords : \A c \in Coords :
       \A g \in GamePieces :
         ApplyMoveResult(p, r, c, g).x = x /\ ApplyMoveResult(p, r, c, g).o = o
  /\ \A p \in Players :
       /\ x # NoPlayer => JoinResult(p).x # NoPlayer
       /\ o # NoPlayer => JoinResult(p).o # NoPlayer

\* C15: once state.x (resp. state.o) has been set to a player id, no later
\* join, leave or applyMove changes it to a different id or unsets it.
C15_MarksPermanent ==
  [][(x # NoPlayer => x' = x) /\ (o # NoPlayer => o' = o)]_vars

\* C16: in every IN_PROGRESS state, whatever the move log, applyMove on a
\* free cell with a player id that is neither state.x nor state.o is
\* rejected with MOVE_NOT_YOUR_TURN and adds no move.
C16_NoMarkNoMove ==
  status = "IN_PROGRESS" =>
    \A p \in Players \ {x, o} : \A r \in Coords : \A c \in Coords :
      \A g \in GamePieces :
        ~Occupied(r, c) =>
          LET res == ApplyMoveResult(p, r, c, g)
          IN /\ res.err = MOVE_NOT_YOUR_TURN_MESSAGE
             /\ res.moves = moves

\* C16 on an empty log: a player who holds no mark is refused the first move
\* (the case the tests exercise).
C16_NoMarkNoFirstMove ==
  (status = "IN_PROGRESS" /\ moves = <<>>) =>
    \A p \in Players \ {x, o} : \A r \in Coords : \A c \in Coords :
      \A g \in GamePieces :
        LET res == ApplyMoveResult(p, r, c, g)
        IN /\ res.err = MOVE_NOT_YOUR_TURN_MESSAGE
           /\ res.moves = moves

\* C17 without the marks: when the only player of a waiting game leaves, the
\* status stays WAITING_TO_START, the log stays empty, the winner stays unset
\* and nobody is in the game.
C17_OnlyPlayerLeavesStatus ==
  AfterFirstJoin =>
    LET res == LeaveResult(players[1])
    IN /\ res.err = NoError
       /\ res.status = "WAITING_TO_START"
       /\ res.moves = <<>>
       /\ res.winner = NoPlayer
       /\ res.players = <<>>

\* C17: when exactly one player has joined (status WAITING_TO_START) and that
\* player leaves, the status stays WAITING_TO_START, the move log stays
\* empty, the winner stays unset, and both x and o are unset afterwards.
C17_OnlyPlayerLeaves ==
  AfterFirstJoin =>
    LET res == LeaveResult(players[1])
    IN /\ res.err = NoError
       /\ res.status = "WAITING_TO_START"
       /\ res.moves = <<>>
       /\ res.winner = NoPlayer
       /\ res.x = NoPlayer
       /\ res.o = NoPlayer

\* C18: applyMove validates status, then cell, then turn, and a move that
\* violates several rules fails with the first of them: a move that is out
\* of turn or on an occupied cell while the status is not IN_PROGRESS fails
\* with GAME_NOT_IN_PROGRESS, and an out-of-turn move on an occupied cell in
\* an IN_PROGRESS game fails with BOARD_POSITION_NOT_EMPTY.
C18_ValidationOrder ==
  \A p \in Players : \A r \in Coords : \A c \in Coords :
    \A g \in GamePieces :
      LET res == ApplyMoveResult(p, r, c, g)
      IN /\ (status # "IN_PROGRESS" /\ (OutOfTurn(p) \/ Occupied(r, c)))
              => res.err = GAME_NOT_IN_PROGRESS_MESSAGE
         /\ (status = "IN_PROGRESS" /\ OutOfTurn(p) /\ Occupied(r, c))
              => res.err = BOARD_POSITION_NOT_EMPTY_MESSAGE

\* C18 witness: a move on the one occupied cell of a game in progress was
\* refused for the cell, in a state in which a player is out of turn.
C18_Witness ==
  /\ err = BOARD_POSITION_NOT_EMPTY_MESSAGE
  /\ status = "IN_PROGRESS"
  /\ Len(moves) = 1
  /\ \E p \in Players : OutOfTurn(p)

\* the occupant lists that contain both players of the game
OccupantListsWith(ps) ==
  {occ \in OccupantLists :
     \A i \in 1..Len(ps) : \E j \in 1..Len(occ) : occ[j] = ps[i]}

\* the scores of a record that gives the winner w score 1 and any other
\* player of ps score 0 (every player of ps score 0 when there is no winner)
ScoresFor(ps, w) ==
  [k \in {UserName(ps[i]) : i \in 1..Len(ps)} |->
     IF k = UserName(w) THEN 1 ELSE 0]

\* the command left the game OVER and appended exactly one record, which
\* carries the id of the game and the scores sc
OneRecordAppended(res, sc) ==
  /\ res.status = "OVER"
  /\ Len(res.history) = Len(history) + 1
  /\ SubSeq(res.history, 1, Len(history)) = history
  /\ res.history[Len(res.history)] = [gameID |-> GameID, scores |-> sc]

\* C19 with occs as the occupant lists: a GameMove command of a player of the
\* game that leaves the game OVER appends exactly one record with the game's
\* id, which gives the winner score 1 and the other player score 0, or both
\* players score 0 on a tie.
MoveOutcomeRecorded(occs) ==
  (hasGame /\ status = "IN_PROGRESS") =>
    \A p \in Players : \A r \in Coords : \A c \in Coords :
      \A g \in GamePieces :
        (InPlayers(players, p) /\ MoveError(p, r, c, g) = NoError) =>
          \A occ \in occs :
            LET res == HandleMoveCommandResult(p, GameID, r, c, g, occ)
            IN res.status = "OVER"
                 => OneRecordAppended(res, ScoresFor(players, res.winner))

\* C19 when the two players of the game are the only occupants, in either
\* order.
C19_MoveOutcomeTwoOccupants ==
  MoveOutcomeRecorded({occ \in OccupantListsWith(players) : Len(occ) = 2})

\* C19: when a GameMove command leaves the game OVER, exactly one record is
\* appended to the history with the game's id; it gives the winner score 1
\* and the other participant score 0, or both participants score 0 on a tie,
\* for every occupant list that contains both participants, in any order and
\* with any additional occupants.
C19_MoveOutcome == MoveOutcomeRecorded(OccupantListsWith(players))

\* the players of the game other than p
Remaining(ps, p) == {ps[i] : i \in 1..Len(ps)} \ {p}

\* the record the forfeit of p is to leave behind: every remaining player of
\* the game scores 1 and p scores 0
ForfeitScores(ps, p) ==
  [k \in {UserName(ps[i]) : i \in 1..Len(ps)} |-> IF k = UserName(p) THEN 0 ELSE 1]

\* a LeaveGame command of a player of the game in progress, with one of the
\* occupant lists occs, ends the game for the remaining player and appends
\* exactly one record with the scores of the forfeit
LeaveOutcomeRecorded(occs) ==
  (hasGame /\ status = "IN_PROGRESS") =>
    \A p \in Players :
      InPlayers(players, p) =>
        \A occ \in occs :
          LET res == HandleLeaveCommandResult(p, GameID, occ)
          IN res.status = "OVER" =>
               /\ Remaining(players, p) = {res.winner}
               /\ OneRecordAppended(res, ForfeitScores(players, p))

\* C20 when the two players of the game are the only occupants, in either
\* order: the forfeit is recorded with the remaining player at 1 and the
\* leaving player at 0.
C20_ForfeitTwoOccupants ==
  LeaveOutcomeRecorded({occ \in OccupantListsWith(players) : Len(occ) = 2})

\* C20: when a LeaveGame command issued during an IN_PROGRESS game leaves the
\* game OVER, exactly one record is appended to the history with the game's
\* id, giving the remaining participant (the winner) score 1 and the leaving
\* participant score 0, for every occupant list that contains both
\* participants, in any order and with any additional occupants.
C20_ForfeitOutcome == LeaveOutcomeRecorded(OccupantListsWith(players))

\* the commands of the players while the occupants of the area are
\* AreaOccupants, and what they leave behind
JoinCommand(p) ==
  HandleCommandResult("JoinGame", p, GameID, 0, 0, "X", AreaOccupants)

LeaveCommand(p, gid) ==
  HandleCommandResult("LeaveGame", p, gid, 0, 0, "X", AreaOccupants)

MoveCommand(p, gid, r, c, g) ==
  HandleCommandResult("GameMove", p, gid, r, c, g, AreaOccupants)

OtherCommand(type, p, gid, r, c, g) ==
  HandleCommandResult(type, p, gid, r, c, g, AreaOccupants)

\* a command that failed: it threw e, and the game, the players in it and
\* the history are as before, and no observer was notified
FailedWith(res, e) ==
  /\ res.err = e
  /\ NothingChanged(res)
  /\ res.hasGame = hasGame
  /\ res.history = history
  /\ res.emitted = <<>>

\* C21: a LeaveGame or GameMove command fails with GAME_NOT_IN_PROGRESS when
\* the area has no game, whatever the id it carries, and with
\* GAME_ID_MISSMATCH when the area has a game and the id of the command is
\* not the id of the game; in both cases the game and the history are
\* unchanged and no notification is emitted.
C21_RouterPreconditions ==
  \A p \in Players : \A gid \in CommandGameIDs :
    LET e == IF ~hasGame THEN GAME_NOT_IN_PROGRESS_MESSAGE
             ELSE GAME_ID_MISSMATCH_MESSAGE
    IN (~hasGame \/ gid # GameID) =>
         /\ FailedWith(LeaveCommand(p, gid), e)
         /\ \A g \in GamePieces : FailedWith(MoveCommand(p, gid, 0, 0, g), e)

\* a move command with another id has just been refused in a game in
\* progress
C21_Witness ==
  /\ hasGame
  /\ status = "IN_PROGRESS"
  /\ moves # <<>>
  /\ err = GAME_ID_MISSMATCH_MESSAGE
  /\ emitted = <<>>

\* the command types handleCommand has a handler for
SupportedTypes == {"JoinGame", "LeaveGame", "GameMove"}

\* C22: a command whose type is not JoinGame, LeaveGame or GameMove fails
\* with INVALID_COMMAND_MESSAGE in every state of the area, with or without
\* a game, whoever sends it and whatever id it carries; the game and the
\* history are unchanged and no notification is emitted.
C22_InvalidCommand ==
  \A type \in CommandTypes \ SupportedTypes :
    \A p \in Players : \A gid \in CommandGameIDs :
      FailedWith(OtherCommand(type, p, gid, 0, 0, "X"), INVALID_COMMAND_MESSAGE)

\* a command of another type has just been refused by an area with a game in
\* progress
C22_Witness ==
  /\ hasGame
  /\ status = "IN_PROGRESS"
  /\ err = INVALID_COMMAND_MESSAGE
  /\ emitted = <<>>

\* the command failed with the error e of the engine, and the game, the
\* players in it and the history are as before
Propagated(res, e) ==
  /\ res.err = e
  /\ NothingChanged(res)
  /\ res.history = history

\* C23: when the join, leave or applyMove that the router calls fails, the
\* command fails with the same error, and the game state, the players in the
\* game and the history are as before the command.
C23_EngineFailuresPropagate ==
  \A rc \in TargetCells :
    \A p \in Players :
      /\ LET e == JoinError(players, p)
         IN e # NoError =>
              Propagated(JoinCommand(p), e)
      /\ LET e == LeaveError(players, p)
         IN (hasGame /\ e # NoError) =>
              Propagated(LeaveCommand(p, GameID), e)
      /\ \A g \in GamePieces :
           LET e == MoveError(p, rc[1], rc[2], g)
           IN (hasGame /\ e # NoError) =>
                Propagated(MoveCommand(p, GameID, rc[1], rc[2], g), e)

\* a move command on a recorded cell has just been refused by the engine
C23_Witness ==
  /\ hasGame
  /\ status = "IN_PROGRESS"
  /\ err = BOARD_POSITION_NOT_EMPTY_MESSAGE
  /\ moves # <<>>
  /\ history = <<>>

C25_JoinAfterOver ==
  (hasGame /\ status = "OVER") =>
    \A p \in Players : \A occ \in OccupantOrders :
      LET res == HandleCommandResult("JoinGame", p, GameID, 0, 0, "X", occ)
      IN /\ res.err = NoError
         /\ res.players = <<p>>
         /\ res.moves = <<>>
         /\ res.winner = NoPlayer
         /\ res.status = "WAITING_TO_START"

\* the command ended the game: it was accepted, it left the game OVER and a
\* record was appended to the history
EndedGame(res) ==
  /\ res.err = NoError
  /\ res.status = "OVER"
  /\ Len(res.history) = Len(history) + 1

\* what the observers see at every notification of the command is the
\* history the command leaves behind
NotifiedWithRecord(res) ==
  /\ res.emitted # <<>>
  /\ \A i \in 1..Len(res.emitted) : res.emitted[i] = res.history

\* C26: for a LeaveGame or GameMove command that ends the game, the record
\* of the outcome is appended to the history before the observers are
\* notified: the history seen at the notification contains the new record.
C26_RecordBeforeNotification ==
  hasGame =>
    \A p \in Players : \A occ \in OccupantOrders :
      /\ LET res == HandleCommandResult("LeaveGame", p, GameID, 0, 0, "X", occ)
         IN EndedGame(res) => NotifiedWithRecord(res)
      /\ \A rc \in Coords \X Coords : \A g \in GamePieces :
           LET res == HandleCommandResult("GameMove", p, GameID, rc[1], rc[2], g, occ)
           IN EndedGame(res) => NotifiedWithRecord(res)

\* the command emitted one notification if it succeeded and none if it
\* failed
OneNotificationIfAccepted(res) ==
  IF res.err = NoError THEN Len(res.emitted) = 1 ELSE res.emitted = <<>>

\* C27: every command that succeeds, of whatever type, emits exactly one
\* area-changed notification, and every command that fails emits none.
C27_NotificationPerCommand ==
  \A rc \in TargetCells :
    \A p \in Players :
      /\ \A type \in CommandTypes \ {"GameMove"} : \A gid \in CommandGameIDs :
           OneNotificationIfAccepted(
             OtherCommand(type, p, gid, 0, 0, "X"))
      /\ \A gid \in OtherGameIDs :
           OneNotificationIfAccepted(
             MoveCommand(p, gid, 0, 0, "X"))
      /\ \A g \in GamePieces :
           OneNotificationIfAccepted(
             MoveCommand(p, GameID, rc[1], rc[2], g))

\* a command has just ended the game and notified the observers once
C27_Witness ==
  /\ err = NoError
  /\ status = "OVER"
  /\ Len(history) = 1
  /\ Len(emitted) = 1

\* the history the command leaves behind is the history before it, followed
\* by at most one record, and by none unless the game is OVER after the
\* command
AppendOnlyWhenOver(res) ==
  /\ Len(res.history) \in {Len(history), Len(history) + 1}
  /\ SubSeq(res.history, 1, Len(history)) = history
  /\ res.history # history => res.status = "OVER"

\* C28: no command removes or alters an entry of the history; a JoinGame
\* command never appends, and a LeaveGame or GameMove command appends an
\* entry only when the status of the game after the command is OVER.
C28_HistoryAppendOnly ==
  /\ \A p \in Players :
       /\ JoinCommand(p).history = history
       /\ \A type \in CommandTypes \ SupportedTypes :
            OtherCommand(type, p, GameID, 0, 0, "X").history = history
       /\ \A gid \in CommandGameIDs : \A occ \in OccupantOrders :
            AppendOnlyWhenOver(HandleLeaveCommandResult(p, gid, occ))
       /\ \A gid \in OtherGameIDs :
            AppendOnlyWhenOver(MoveCommand(p, gid, 0, 0, "X"))
  /\ \A rc \in TargetCells : \A p \in Players : \A g \in GamePieces :
       AppendOnlyWhenOver(MoveCommand(p, GameID, rc[1], rc[2], g))

\* a game with a record in the history was started again and a move was
\* accepted in it: the record is still there
C28_Witness ==
  /\ Len(history) = 1
  /\ status = "IN_PROGRESS"
  /\ moves # <<>>
  /\ err = NoError
  /\ emitted = <<history>>

\* a leave by the player at position i of the game's players does what the
\* number of players decides: with two players the game is OVER and won by
\* the other player, with fewer it is WAITING_TO_START
LeaveByCount(i) ==
  LET res == LeaveResult(players[i])
  IN /\ res.err = NoError
     /\ Len(players) = 2 =>
          /\ res.status = "OVER"
          /\ res.winner = players[3 - i]
     /\ Len(players) < 2 => res.status = "WAITING_TO_START"

\* C29 for a game that no move has ended: the status is IN_PROGRESS exactly
\* when two players are in the game, and the leave does what the number of
\* players decides.
C29_LeaveWhileNotOver ==
  status # "OVER" =>
    /\ Len(players) = 2 <=> status = "IN_PROGRESS"
    /\ \A i \in 1..Len(players) : LeaveByCount(i)

\* C29: a leave by a player of the game while two players are in the game
\* sets the status to OVER and the winner to the other player, and a leave
\* while fewer than two players are in the game sets the status to
\* WAITING_TO_START.
C29_LeaveByPlayerCount == \A i \in 1..Len(players) : LeaveByCount(i)

\* C30: in every reachable state the winner is unset or is the player
\* recorded as x or the player recorded as o.
C30_WinnerIsParticipant == winner = NoPlayer \/ winner = x \/ winner = o

\* C31: in every reachable state a winner is set only if the status is OVER.
C31_WinnerOnlyWhenOver == winner # NoPlayer => status = "OVER"

\* C32, the number of players: in every reachable state with status
\* IN_PROGRESS exactly two players are in the game.
C32_TwoPlayersInProgress == status = "IN_PROGRESS" => Len(players) = 2

\* C32: in every reachable state with status IN_PROGRESS exactly two players
\* are in the game, x and o are the ids of those two players, and x differs
\* from o.
C32_InProgressParticipants ==
  status = "IN_PROGRESS" =>
    /\ Len(players) = 2
    /\ {x, o} = {players[i] : i \in 1..Len(players)}
    /\ x # o

\* C33: in every reachable state with status WAITING_TO_START the move log is
\* empty.
C33_WaitingGameIsEmpty == status = "WAITING_TO_START" => moves = <<>>

\* C34: when the ninth accepted move completes a line for the mover, the
\* game ends with status OVER and the mover as the winner, not with the
\* winner unset.
C34_WinBeforeTie ==
  Len(moves) = BoardCells - 1 =>
    \A p \in Players : \A rc \in Coords \X Coords : \A g \in GamePieces :
      LET res == ApplyMoveResult(p, rc[1], rc[2], g)
      IN (res.err = NoError /\ LineComplete(res.moves, GamePieceOf(x, p)))
           => (res.status = "OVER" /\ res.winner = p)

\* the board is full and the last move completed a line for its mover, who
\* is the winner
C34_Witness ==
  /\ Len(moves) = BoardCells
  /\ status = "OVER"
  /\ winner # NoPlayer
  /\ LineComplete(moves, moves[BoardCells].gamePiece)
  /\ ~LineComplete(SubSeq(moves, 1, BoardCells - 1), moves[BoardCells].gamePiece)

\* C35: when two players are in the game and one of them calls join again,
\* the failure is PLAYER_ALREADY_IN_GAME and not GAME_FULL; in every state a
\* join that fails with GAME_FULL is a join by a player who is not in the
\* game.
C35_JoinFailurePrecedence ==
  \A p \in Players :
    LET res == JoinResult(p)
    IN /\ (Len(players) = 2 /\ InPlayers(players, p))
            => res.err = PLAYER_ALREADY_IN_GAME_MESSAGE
       /\ res.err = GAME_FULL_MESSAGE => ~InPlayers(players, p)

\* one of the two players of a game has just been refused a second join
C35_Witness ==
  /\ err = PLAYER_ALREADY_IN_GAME_MESSAGE
  /\ Len(players) = 2
  /\ status = "IN_PROGRESS"

\* C36, second half: a command sent when the game is already OVER appends
\* nothing to the history.
C36_NoAppendOnOverGame ==
  (hasGame /\ status = "OVER") =>
    /\ \A p \in Players :
         /\ JoinCommand(p).history = history
         /\ \A gid \in CommandGameIDs : \A occ \in OccupantOrders :
              HandleLeaveCommandResult(p, gid, occ).history = history
    /\ \A rc \in TargetCells : \A p \in Players : \A g \in GamePieces :
         MoveCommand(p, GameID, rc[1], rc[2], g).history = history

\* C36: after any sequence of commands each game id appears in at most one
\* entry of the history.
C36_OneRecordPerGame ==
  \A i \in 1..Len(history) : \A j \in 1..Len(history) :
    history[i].gameID = history[j].gameID => i = j

\* one of the players in the game has an applyMove that is accepted
SomePlayerCanMove ==
  \E i \in 1..Len(players) : \E rc \in Coords \X Coords : \E g \in GamePieces :
    MoveError(players[i], rc[1], rc[2], g) = NoError

\* C37 for a game in progress whose x and o are its two players and whose
\* board is not full: one of the two players has an accepted move.
C37_CanMoveWithBothMarks ==
  (/\ status = "IN_PROGRESS"
   /\ x # o
   /\ {x, o} = {players[i] : i \in 1..Len(players)}
   /\ Len(moves) < BoardCells) => SomePlayerCanMove

\* C37: in every reachable IN_PROGRESS state at least one of the players
\* currently in the game has an applyMove that is accepted, so that the game
\* can be played on until it is OVER.
C37_PlayableToTheEnd == status = "IN_PROGRESS" => SomePlayerCanMove

\* C38: for every move log that accepted moves produce in a game, no line
\* being complete before its last move, the single-pass _playerHasWon of
\* the variant engine returns what the row, column and diagonal checks of
\* the named engine return for the mark of the last mover.
C38_WinDetectionsAgree ==
  moves # <<>> =>
    (VariantPlayerHasWon(moves)
       <=> PlayerHasWon(moves, moves[Len(moves)].gamePiece))

\* the named engine ends the game at the first complete line, so that no
\* log of SpecWin has a complete line before its last move
C38_NoLineBeforeLast ==
  \A piece \in GamePieces :
    ~LineComplete(SubSeq(moves, 1, Len(moves) - 1), piece)

\* a log whose last move completed a diagonal, found by both
C38_Witness ==
  /\ moves # <<>>
  /\ VariantPlayerHasWon(moves)
  /\ CheckForDiagonalWins(moves, moves[Len(moves)].gamePiece)
  /\ ~CheckForHorizontalWins(moves, moves[Len(moves)].gamePiece)
  /\ ~CheckForVerticalWins(moves, moves[Len(moves)].gamePiece)

====
